---------------------------- MODULE Spec2Model ----------------------------
(***************************************************************************)
(* Model of the Quarto-to-notebook scripts of Survival_Analysis_R:         *)
(*   batch_qmd_to_ipynb.py  (CHUNK_RE scanner, split_headings, main)       *)
(*   rmd_to_colab_01.py     (line scanner, heading splitter, main)         *)
(*   rmd_to_colab.py        (line scanner without heading splitter)        *)
(*   repair_notebooks.py    (repair_notebook, main)                        *)
(*   modify_notebooks.py    (process_notebook)                             *)
(*                                                                         *)
(* Text.  A line is a sequence of pieces.  A piece taken from an input     *)
(* document is one character; a fixed literal of the source (a boilerplate *)
(* line, a JSON key) is kept as one piece.  A document is the sequence of  *)
(* lines content.splitlines() yields; its text is the lines joined by      *)
(* "\n".  A file is a sequence of JSON tokens, white space included.       *)
(***************************************************************************)
EXTENDS Naturals, Sequences, FiniteSets, TLC

(***************************************************************************)
(* Character classes (Python str.strip, and \s, \w, \b of module re).      *)
(***************************************************************************)
WS == {" ", "\t", "\n"}

\* \w
WordCh ==
  {"a","b","c","d","e","f","g","h","i","j","k","l","m","n","o","p","q","r",
   "s","t","u","v","w","x","y","z",
   "A","B","C","D","E","F","G","H","I","J","K","L","M","N","O","P","Q","R",
   "S","T","U","V","W","X","Y","Z",
   "0","1","2","3","4","5","6","7","8","9", "_"}

\* [a-zA-Z0-9_+.-], the class of the engine group of CHUNK_RE
EngineCh == WordCh \cup {"+", ".", "-"}

(***************************************************************************)
(* Sequence and string helpers.                                            *)
(***************************************************************************)
RECURSIVE Flatten(_)
Flatten(ss) == IF ss = <<>> THEN <<>> ELSE Head(ss) \o Flatten(Tail(ss))

\* s[from:] (1-based, inclusive)
Drop(s, from) == SubSeq(s, from, Len(s))

\* number of leading pieces of s that lie in set cls
RECURSIVE LeadLen(_, _)
LeadLen(s, cls) ==
  IF s # <<>> /\ Head(s) \in cls THEN 1 + LeadLen(Tail(s), cls) ELSE 0

\* number of trailing pieces of s that lie in set cls
RECURSIVE TrailLen(_, _)
TrailLen(s, cls) ==
  IF s # <<>> /\ s[Len(s)] \in cls
  THEN 1 + TrailLen(SubSeq(s, 1, Len(s) - 1), cls) ELSE 0

\* str.lstrip(), str.rstrip(), str.strip() of one line
LStrip(s) == Drop(s, LeadLen(s, WS) + 1)
RStrip(s) == SubSeq(s, 1, Len(s) - TrailLen(s, WS))
Strip(s) == LStrip(RStrip(s))

\* str.startswith(prefix)
StartsWith(s, prefix) ==
  Len(s) >= Len(prefix) /\ SubSeq(s, 1, Len(prefix)) = prefix

\* the option marker "#|"
OptMarker == <<"#", "|">>

(***************************************************************************)
(* JSON values as json.load builds them.  A dict keeps its keys in         *)
(* insertion order: an object is a sequence of [k, v] members.             *)
(*   t = "lit": null, true or a number, spelled in s                       *)
(*   t = "str": a string, its pieces in s                                  *)
(*   t = "arr": a list, its items in a                                     *)
(*   t = "obj": a dict, its members in a                                   *)
(***************************************************************************)
JLit(name) == [t |-> "lit", s |-> <<name>>, a |-> <<>>]
JNull == JLit("null")
JStr(line) == [t |-> "str", s |-> line, a |-> <<>>]
JArr(items) == [t |-> "arr", s |-> <<>>, a |-> items]
JObj(members) == [t |-> "obj", s |-> <<>>, a |-> members]
Member(key, val) == [k |-> key, v |-> val]

\* a list of strings, as "source" holds
JLines(lines) == JArr([i \in 1..Len(lines) |-> JStr(lines[i])])

\* the lines of a list of strings
LinesOf(arr) == [i \in 1..Len(arr.a) |-> arr.a[i].s]

IsObj(x) == x.t = "obj"

\* key in d
HasKey(d, key) == \E i \in 1..Len(d.a) : d.a[i].k = key

\* d[key] for a key that is present
Get(d, key) == d.a[CHOOSE i \in 1..Len(d.a) : d.a[i].k = key].v

\* d.get(key): the literal null stands for None
GetOrNone(d, key) == IF HasKey(d, key) THEN Get(d, key) ELSE JNull

\* d[key] = val: in place for a key that is present, appended otherwise
SetKey(d, key, val) ==
  IF HasKey(d, key)
  THEN JObj([i \in 1..Len(d.a) |->
              IF d.a[i].k = key THEN Member(key, val) ELSE d.a[i]])
  ELSE JObj(Append(d.a, Member(key, val)))

(***************************************************************************)
(* JSON text as a sequence of tokens.                                      *)
(***************************************************************************)
Punct(c) == [k |-> "punct", v |-> <<c>>]
WsTok(c) == [k |-> "ws", v |-> <<c>>]
StrTok(line) == [k |-> "str", v |-> line]

\* a JSON output style: indent=1 or none, ": " or ":", a final newline or none

\* "\n" followed by level spaces when indenting, nothing otherwise
NewlineIndent(style, level) ==
  IF style.indent
  THEN <<WsTok("\n")>> \o [i \in 1..level |-> WsTok(" ")]
  ELSE <<>>

\* json.JSONEncoder.iterencode of one value at a nesting level
RECURSIVE Encode(_, _, _)
RECURSIVE EncodeItems(_, _, _, _)
EncodeItems(items, isObj, style, level) ==
  LET one == Head(items)
      this == IF isObj
              THEN <<StrTok(<<one.k>>), Punct(":")>>
                     \o (IF style.keySpace THEN <<WsTok(" ")>> ELSE <<>>)
                     \o Encode(one.v, style, level)
              ELSE Encode(one, style, level)
  IN  IF Len(items) = 1 THEN this
      ELSE this \o <<Punct(",")>> \o NewlineIndent(style, level)
             \o EncodeItems(Tail(items), isObj, style, level)

Encode(x, style, level) ==
  CASE x.t = "lit" -> <<[k |-> "lit", v |-> x.s]>>
    [] x.t = "str" -> <<StrTok(x.s)>>
    [] OTHER ->
       LET open == IF x.t = "obj" THEN "{" ELSE "["
           close == IF x.t = "obj" THEN "}" ELSE "]"
       IN  IF x.a = <<>> THEN <<Punct(open), Punct(close)>>
           ELSE <<Punct(open)>> \o NewlineIndent(style, level + 1)
                  \o EncodeItems(x.a, x.t = "obj", style, level + 1)
                  \o NewlineIndent(style, level) \o <<Punct(close)>>

\* json.dumps / json.dump, with the newline the caller may write after it
Dumps(x, style) ==
  Encode(x, style, 0) \o (IF style.nl THEN <<WsTok("\n")>> ELSE <<>>)

(***************************************************************************)
(* json.load: a recursive-descent parse of the tokens.  The result is      *)
(* [ok, val, pos]; ok = FALSE is a JSONDecodeError.                        *)
(***************************************************************************)
ParseFail == [ok |-> FALSE, val |-> JNull, pos |-> 0]
ParseOk(val, pos) == [ok |-> TRUE, val |-> val, pos |-> pos]

RECURSIVE SkipWs(_, _)
SkipWs(ts, i) ==
  IF i <= Len(ts) /\ ts[i].k = "ws" THEN SkipWs(ts, i + 1) ELSE i

IsPunct(ts, i, c) == i <= Len(ts) /\ ts[i] = Punct(c)

RECURSIVE ParseValue(_, _)
RECURSIVE ParseItems(_, _, _)
RECURSIVE ParseMembers(_, _, _)

ParseItems(ts, i, acc) ==
  LET r == ParseValue(ts, i)
      j == SkipWs(ts, r.pos)
  IN  IF ~r.ok THEN ParseFail
      ELSE IF IsPunct(ts, j, ",") THEN ParseItems(ts, j + 1, Append(acc, r.val))
      ELSE IF IsPunct(ts, j, "]") THEN ParseOk(JArr(Append(acc, r.val)), j + 1)
      ELSE ParseFail

ParseMembers(ts, i, acc) ==
  LET j == SkipWs(ts, i)
      c == SkipWs(ts, j + 1)
      r == ParseValue(ts, c + 1)
      e == SkipWs(ts, r.pos)
  IN  IF ~(j <= Len(ts) /\ ts[j].k = "str" /\ Len(ts[j].v) = 1) THEN ParseFail
      ELSE IF ~IsPunct(ts, c, ":") THEN ParseFail
      ELSE IF ~r.ok THEN ParseFail
      ELSE IF IsPunct(ts, e, ",")
           THEN ParseMembers(ts, e + 1, SetKey(acc, ts[j].v[1], r.val))
      ELSE IF IsPunct(ts, e, "}")
           THEN ParseOk(SetKey(acc, ts[j].v[1], r.val), e + 1)
      ELSE ParseFail

ParseValue(ts, i) ==
  LET j == SkipWs(ts, i)
  IN  IF j > Len(ts) THEN ParseFail
      ELSE IF ts[j].k = "str" THEN ParseOk(JStr(ts[j].v), j + 1)
      ELSE IF ts[j].k = "lit" THEN ParseOk([t |-> "lit", s |-> ts[j].v, a |-> <<>>], j + 1)
      ELSE IF ts[j] = Punct("[")
           THEN IF IsPunct(ts, SkipWs(ts, j + 1), "]")
                THEN ParseOk(JArr(<<>>), SkipWs(ts, j + 1) + 1)
                ELSE ParseItems(ts, j + 1, <<>>)
      ELSE IF ts[j] = Punct("{")
           THEN IF IsPunct(ts, SkipWs(ts, j + 1), "}")
                THEN ParseOk(JObj(<<>>), SkipWs(ts, j + 1) + 1)
                ELSE ParseMembers(ts, j + 1, JObj(<<>>))
      ELSE ParseFail

\* json.load of a whole file: text after the value is an error too
WholeValue(ts, r) ==
  IF r.ok /\ SkipWs(ts, r.pos) = Len(ts) + 1 THEN r ELSE ParseFail

Loads(ts) == WholeValue(ts, ParseValue(ts, 1))

(***************************************************************************)
(* The three ways the scripts write JSON.                                  *)
(***************************************************************************)
\* repair_notebooks.py: json.dump(data, f, separators=(',', ':'))
CompactStyle == [indent |-> FALSE, keySpace |-> FALSE, nl |-> FALSE]
\* batch_qmd_to_ipynb.py: json.dumps(notebook, indent=1, separators=(',', ':'))
ConvertStyle == [indent |-> TRUE, keySpace |-> FALSE, nl |-> FALSE]
\* modify_notebooks.py: json.dump(nb, f, indent=1); f.write('\n')
JupyterStyle == [indent |-> TRUE, keySpace |-> TRUE, nl |-> TRUE]

(***************************************************************************)
(* State.                                                                  *)
(*   content  the document the converter was given (its lines)             *)
(*   cells    the cell list the converter built from it                    *)
(*   nbfile   the bytes of the notebook file on disk (JSON tokens)         *)
(*   perm     whether nbfile can be read and written                       *)
(*   before   nbfile as it was before the last pass over it                *)
(*   report   what the last pass over nbfile printed                       *)
(*   prev     what the pass before that printed                            *)
(*   passes   how many passes have run over nbfile                         *)
(*   run      the run of a main over a directory: the script, whether the  *)
(*            directory exists, the files left and done, how it stands     *)
(***************************************************************************)
VARIABLES content, cells, nbfile, perm, before, report, prev, passes, run

vars == <<content, cells, nbfile, perm, before, report, prev, passes, run>>

\* the value of run while no main is running
NoRun == [tool |-> "none", dirExists |-> TRUE, todo |-> 0, done |-> 0, status |-> "none"]

(***************************************************************************)
(* repair_notebooks.py                                                     *)
(***************************************************************************)
CodeType == JStr(<<"code">>)
MarkdownType == JStr(<<"markdown">>)

\* isinstance(cell, dict) and cell.get("cell_type") == "code"
IsCodeCell(cell) == IsObj(cell) /\ GetOrNone(cell, "cell_type") = CodeType

\* the condition under which the loop of repair_notebook sets fixed = True
CellLacksFieldAlways(cell) == IsCodeCell(cell)
CellLacksField(cell) ==
  IsCodeCell(cell) /\ (~HasKey(cell, "outputs") \/ ~HasKey(cell, "execution_count"))

\* the body of the loop of repair_notebook for one cell
RepairCellNoCount(cell) ==
  IF ~IsCodeCell(cell) THEN cell
  ELSE IF HasKey(cell, "outputs") THEN cell ELSE SetKey(cell, "outputs", JArr(<<>>))
RepairCell(cell) ==
  IF ~IsCodeCell(cell) THEN cell
  ELSE LET c1 == IF HasKey(cell, "outputs") THEN cell
                 ELSE SetKey(cell, "outputs", JArr(<<>>))
       IN  IF HasKey(c1, "execution_count") THEN c1
           ELSE SetKey(c1, "execution_count", JNull)

\* lines 30-51 of repair_notebook: the loop over cs, which is data["cells"],
\* and the write.  Iterating a cs that is null, true or a number raises
\* TypeError, which nothing catches; a dict or a string is iterated, and
\* none of its items is a dict.
RepairCells(bytes, p, data, cs) ==
  IF cs.t = "lit"
  THEN [bytes |-> bytes, msg |-> "TypeError", ret |-> FALSE, raised |-> TRUE]
  ELSE IF cs.t # "arr" \/ ~(\E i \in 1..Len(cs.a) : CellLacksField(cs.a[i]))
       THEN [bytes |-> bytes, msg |-> "OK", ret |-> TRUE, raised |-> FALSE]
  ELSE IF ~p.writable
       THEN [bytes |-> bytes, msg |-> "WRITE ERROR", ret |-> FALSE, raised |-> FALSE]
  ELSE [bytes |-> Dumps(SetKey(data, "cells",
                               JArr([i \in 1..Len(cs.a) |-> RepairCell(cs.a[i])])),
                        CompactStyle),
        msg |-> "FIXED", ret |-> TRUE, raised |-> FALSE]

\* lines 14-29 of repair_notebook, r being what json.load gave
RepairLoaded(bytes, p, r) ==
  IF ~p.readable
  THEN [bytes |-> bytes, msg |-> "READ ERROR", ret |-> FALSE, raised |-> FALSE]
  ELSE IF ~r.ok
       THEN [bytes |-> bytes, msg |-> "JSON ERROR", ret |-> FALSE, raised |-> FALSE]
  ELSE IF ~IsObj(r.val) \/ ~HasKey(r.val, "cells")
       THEN [bytes |-> bytes, msg |-> "NOT A NOTEBOOK", ret |-> FALSE, raised |-> FALSE]
  ELSE RepairCells(bytes, p, r.val, Get(r.val, "cells"))

\* repair_notebook(file_path): the file it leaves, what it prints, what it
\* returns, and whether an exception left it
RepairNotebook(bytes, p) == RepairLoaded(bytes, p, Loads(bytes))

(***************************************************************************)
(* Notebook files a repair run may meet.                                   *)
(***************************************************************************)
MaxCells == 2
MaxPasses == 3

\* a cell with the given members
Cell(type, lines, more) ==
  JObj(<<Member("cell_type", type), Member("metadata", JObj(<<>>)),
         Member("source", JLines(lines))>> \o more)

OutputsMember == Member("outputs", JArr(<<>>))
CountMember == Member("execution_count", JNull)

\* cells as notebooks on disk hold them: complete, lacking one field or
\* both, already executed, and prose
CellPool ==
  { Cell(CodeType, << <<"x">> >>, <<OutputsMember, CountMember>>),
    Cell(CodeType, << <<"x">> >>, <<CountMember>>),
    Cell(CodeType, << <<"x">> >>, <<OutputsMember>>),
    Cell(CodeType, << <<"%%R">>, <<"y">> >>, <<>>),
    Cell(CodeType, << <<"z">> >>,
         <<Member("execution_count", JLit("1")), Member("outputs", JArr(<<JObj(<<>>)>>))>>),
    Cell(MarkdownType, << <<"#", " ", "T">> >>, <<>>) }

CellLists == UNION { [1..n -> CellPool] : n \in 0..MaxCells }

Notebook(cs) ==
  JObj(<<Member("cells", JArr(cs)), Member("metadata", JObj(<<>>)),
         Member("nbformat", JLit("4")), Member("nbformat_minor", JLit("5"))>>)

Styles == {CompactStyle, ConvertStyle, JupyterStyle}

\* files that are no notebook, or no JSON at all
OddFiles ==
  { <<Punct("{"), StrTok(<<"cells">>)>>,
    Dumps(JArr(<<>>), CompactStyle),
    Dumps(JObj(<<Member("nbformat", JLit("4"))>>), JupyterStyle),
    Dumps(JObj(<<Member("cells", JNull)>>), CompactStyle),
    Dumps(JObj(<<Member("cells", JObj(<<Member("a", JNull)>>))>>), CompactStyle) }

Perms == [readable : BOOLEAN, writable : BOOLEAN]

InitRepair ==
  /\ nbfile \in { Dumps(Notebook(cs), st) : cs \in CellLists, st \in Styles } \cup OddFiles
  /\ perm \in Perms
  /\ before = nbfile
  /\ content = <<>>
  /\ cells = <<>>
  /\ report = "none"
  /\ prev = "none"
  /\ passes = 0
  /\ run = NoRun

\* one run of repair_notebook over nbfile
RepairPass ==
  /\ nbfile # <<>>
  /\ passes < MaxPasses
  /\ \E res \in {RepairNotebook(nbfile, perm)} :
       /\ nbfile' = res.bytes
       /\ report' = res.msg
  /\ before' = nbfile
  /\ prev' = report
  /\ passes' = passes + 1
  /\ UNCHANGED <<content, cells, perm, run>>

SpecRepair == InitRepair /\ [][RepairPass]_vars

(***************************************************************************)
(* Claims about the repair pass, checked under SpecRepair.                 *)
(***************************************************************************)
\* the JSON value of a file, for a file that parses
DataOf(bytes) == Loads(bytes).val

\* a file json.load accepts whose top level is a dict with a list "cells"
IsNotebookFile(bytes) ==
  /\ Loads(bytes).ok
  /\ IsObj(DataOf(bytes))
  /\ HasKey(DataOf(bytes), "cells")
  /\ Get(DataOf(bytes), "cells").t = "arr"

\* C3: the repair pass is idempotent.  Once repair_notebook has run over a
\* file, a second run over the file the first run left changes no byte of
\* it; and when the first run succeeded (it printed FIXED or OK), the
\* second run reports that nothing needed a fix (OK).
C3_RepairIdempotent ==
  passes >= 2 =>
    /\ nbfile = before
    /\ (prev \in {"FIXED", "OK"} => report = "OK")

\* C3 witness: a second run has followed a run that did fix the file.
C3_Witness ==
  passes = 2 /\ prev = "FIXED" /\ report = "OK" /\ nbfile = before

\* what C4 expects of one cell: a code cell that lacks "outputs" gains
\* "outputs": [], one that lacks "execution_count" gains
\* "execution_count": null, and every other member and cell stays as it is
C4_Expected(cell) ==
  IF ~(IsObj(cell) /\ HasKey(cell, "cell_type") /\ Get(cell, "cell_type") = CodeType)
  THEN cell
  ELSE JObj(cell.a
            \o (IF HasKey(cell, "outputs") THEN <<>> ELSE <<OutputsMember>>)
            \o (IF HasKey(cell, "execution_count") THEN <<>> ELSE <<CountMember>>))

C4_ExpectedData(data) ==
  LET cs == Get(data, "cells").a
  IN  SetKey(data, "cells", JArr([i \in 1..Len(cs) |-> C4_Expected(cs[i])]))

\* C4 as stated: after a pass over a notebook file that can be read and
\* written, the file is the file before with the two fields added to the
\* code cells that lacked them and nothing else changed, formatting
\* included: it is the expected notebook written in the very style the
\* file was in before.
C4_ByteForByte ==
  (passes >= 1 /\ perm.readable /\ perm.writable /\ IsNotebookFile(before)) =>
    \E st \in Styles :
      /\ before = Dumps(DataOf(before), st)
      /\ nbfile = Dumps(C4_ExpectedData(DataOf(before)), st)

\* C4 as amended: after a pass over a notebook file that can be read and
\* written, the notebook the file holds is the notebook before with the two
\* fields added to exactly the code cells that lacked them, every other
\* cell, key, value and their order unchanged.  A file in which no cell
\* lacked a field is not written and keeps every byte; a file in which one
\* did is rewritten as compact JSON, whatever its formatting was.
C4_ContentPreserved ==
  (passes >= 1 /\ perm.readable /\ perm.writable /\ IsNotebookFile(before)) =>
    LET want == C4_ExpectedData(DataOf(before))
    IN  /\ Loads(nbfile).ok
        /\ DataOf(nbfile) = want
        /\ (want = DataOf(before) => nbfile = before /\ report = "OK")
        /\ (want # DataOf(before) =>
              nbfile = Dumps(want, CompactStyle) /\ report = "FIXED")

\* C4 witness: a pass fixed an indented file that holds a prose cell next to
\* a code cell lacking a field.
C4_Witness ==
  /\ passes = 1
  /\ report = "FIXED"
  /\ \E i \in 1..Len(before) : before[i].k = "ws"
  /\ \E i, j \in 1..Len(Get(DataOf(before), "cells").a) :
       LET cs == Get(DataOf(before), "cells").a
       IN  cs[i] # cs[j] /\ ~IsCodeCell(cs[i]) /\ ~CellLacksField(cs[i])
             /\ CellLacksField(cs[j])

(***************************************************************************)
(* Text of several lines.                                                  *)
(***************************************************************************)
\* the text of a document: every line followed by "\n"
Text(lines) == Flatten([i \in 1..Len(lines) |-> Append(lines[i], "\n")])

\* str.splitlines(): a final "\n" opens no further line
RECURSIVE SplitLines(_)
SplitLines(text) ==
  IF text = <<>> THEN <<>>
  ELSE LET n == LeadLen(text, {text[i] : i \in 1..Len(text)} \ {"\n"})
       IN  <<SubSeq(text, 1, n)>> \o SplitLines(Drop(text, n + 2))

IsBlank(line) == Strip(line) = <<>>

\* number of leading, of trailing, blank lines
RECURSIVE LeadBlank(_)
LeadBlank(lines) ==
  IF lines # <<>> /\ IsBlank(Head(lines)) THEN 1 + LeadBlank(Tail(lines)) ELSE 0

RECURSIVE TrailBlank(_)
TrailBlank(lines) ==
  IF lines # <<>> /\ IsBlank(lines[Len(lines)])
  THEN 1 + TrailBlank(SubSeq(lines, 1, Len(lines) - 1)) ELSE 0

\* the white space at the end of the last line goes
RStripLast(kept) ==
  IF kept = <<>> THEN <<>> ELSE [kept EXCEPT ![Len(kept)] = RStrip(@)]

\* the white space at the start of the first line goes
LStripFirst(kept) ==
  IF kept = <<>> THEN <<>> ELSE [kept EXCEPT ![1] = LStrip(@)]

DropLeadBlank(lines) == Drop(lines, LeadBlank(lines) + 1)

\* text.rstrip().splitlines() and text.strip().splitlines() of a text given
\* by its lines: blank lines at the end(s) go, and so does the white space
\* at the end(s) of the line that is then last (first)
RStripText(lines) == RStripLast(SubSeq(lines, 1, Len(lines) - TrailBlank(lines)))

StripText(lines) == LStripFirst(DropLeadBlank(RStripText(lines)))

\* str.lower() of one character
LowerCh(c) ==
  CASE c = "A" -> "a" [] c = "B" -> "b" [] c = "C" -> "c" [] c = "D" -> "d"
    [] c = "E" -> "e" [] c = "F" -> "f" [] c = "G" -> "g" [] c = "H" -> "h"
    [] c = "I" -> "i" [] c = "J" -> "j" [] c = "K" -> "k" [] c = "L" -> "l"
    [] c = "M" -> "m" [] c = "N" -> "n" [] c = "O" -> "o" [] c = "P" -> "p"
    [] c = "Q" -> "q" [] c = "R" -> "r" [] c = "S" -> "s" [] c = "T" -> "t"
    [] c = "U" -> "u" [] c = "V" -> "v" [] c = "W" -> "w" [] c = "X" -> "x"
    [] c = "Y" -> "y" [] c = "Z" -> "z" [] OTHER -> c

Lower(s) == [i \in 1..Len(s) |-> LowerCh(s[i])]

(***************************************************************************)
(* batch_qmd_to_ipynb.py: the fixed cells.                                 *)
(***************************************************************************)
MarkdownCell(lines) == Cell(MarkdownType, lines, <<>>)
CodeCell(lines) == Cell(CodeType, lines, <<OutputsMember, CountMember>>)

BANNER ==
  MarkdownCell(<< <<"![Survival Analysis with R](http://drive.google.com/uc?export=view&id=1bLQ3nhDbZrCCqy_WCxxckOne2lgVvn3l)">>,
                  <<>>, <<"<br>">> >>)

RPY2_MD == MarkdownCell(<< <<"## Install rpy2">> >>)

RPY2_CODE_NoOutputs ==
  Cell(CodeType, << <<"!pip uninstall rpy2 -y -q">>, <<"!pip install rpy2==3.5.1 -q">>,
                    <<"%load_ext rpy2.ipython">> >>, <<CountMember>>)
RPY2_CODE ==
  CodeCell(<< <<"!pip uninstall rpy2 -y -q">>, <<"!pip install rpy2==3.5.1 -q">>,
              <<"%load_ext rpy2.ipython">> >>)

DRIVE_MD == MarkdownCell(<< <<"## Mount Google Drive">> >>)

DRIVE_CODE ==
  CodeCell(<< <<"from google.colab import drive">>, <<"drive.mount('/content/drive')">> >>)

SEPARATOR == MarkdownCell(<< <<>>, <<"---">>, <<>> >>)

\* the cells put before the first R chunk
SetupCells == <<RPY2_MD, RPY2_CODE, DRIVE_MD, DRIVE_CODE, SEPARATOR>>

(***************************************************************************)
(* LAYOUT_BLOCK_RE.sub("", content): from ":::", white space and           *)
(* "{layout-ncol" to the next ":::", across lines.  The markers ":::" and  *)
(* "{layout-ncol" are one piece each.                                      *)
(***************************************************************************)
Min(S) == CHOOSE k \in S : \A j \in S : k <= j

\* the least index from which text holds piece p, 0 for none
IndexFrom(text, from, p) ==
  LET hits == {i \in from..Len(text) : text[i] = p}
  IN  IF hits = {} THEN 0 ELSE Min(hits)

\* whether the layout pattern matches at position i, and where it ends
LayoutEnd(text, i) ==
  LET q == i + 1 + LeadLen(Drop(text, i + 1), WS)
  IN  IF text[i] = ":::" /\ q <= Len(text) /\ text[q] = "{layout-ncol"
      THEN IndexFrom(text, q + 1, ":::")
      ELSE 0

\* re.sub: every match, left to right, is cut out
RECURSIVE LayoutSubFrom(_, _)
LayoutSubFrom(text, from) ==
  LET starts == {i \in from..Len(text) : LayoutEnd(text, i) # 0}
  IN  IF starts = {} THEN Drop(text, from)
      ELSE SubSeq(text, from, Min(starts) - 1)
             \o LayoutSubFrom(text, LayoutEnd(text, Min(starts)) + 1)

\* CHUNK_RE, read line by line.  With FENCE for the three back quotes:
\*   ^(?P<indent>[ \t]*)FENCE\{?\s*(?P<engine>[a-zA-Z0-9_+.-]*)\b
\*    (?P<options>.*?)\n(?P<code>[\s\S]*?)\n(?P=indent)FENCE
\* A match starts at a line start.  The indent and the white space after
\* the fence take all they can (any shorter choice leaves a blank or a back
\* quote where the next item cannot match); the white space crosses line
\* ends, so a fence line that holds nothing after the back quotes takes its
\* engine from the next line that is not blank.  The engine is the longest
\* run of engine characters that ends at a word boundary; the options are
\* the rest of that line; the code is lazy, so the match closes at the
\* first later line, at least two lines on, that starts with the same
\* indent and three back quotes.
\* the back quote (a TLA+ string cannot hold the character itself)
BQ == "<backquote>"

Fence == <<BQ, BQ, BQ>>

\* \s* from the text txt of line h on: the line and text where it stops
RECURSIVE HeaderAt(_, _, _)
HeaderAt(L, h, txt) ==
  IF LStrip(txt) # <<>> THEN [h |-> h, g |-> LStrip(txt)]
  ELSE IF h < Len(L) THEN HeaderAt(L, h + 1, L[h + 1])
  ELSE [h |-> 0, g |-> <<>>]

\* the lengths the engine group may have, the longest being tried first:
\* those with a \b after the first k characters of g (the character before
\* g is no word character)
EngineLens(g) ==
  {k \in 0..LeadLen(g, EngineCh) :
     (k > 0 /\ g[k] \in WordCh) # (k < Len(g) /\ g[k + 1] \in WordCh)}

Max(S) == CHOOSE k \in S : \A j \in S : j <= k

\* the least index from which a line of L starts with prefix, 0 for none
RECURSIVE LineFrom(_, _, _)
LineFrom(L, from, prefix) ==
  IF from > Len(L) THEN 0
  ELSE IF StartsWith(L[from], prefix) THEN from
  ELSE LineFrom(L, from + 1, prefix)

NoMatch ==
  [ok |-> FALSE, engine |-> <<>>, options |-> <<>>, code |-> <<>>,
   close |-> 0, rest |-> <<>>]

\* the match once the closing fence is known to be at line c, 0 for none
MatchClose(L, ind, hd, k, c) ==
  IF c = 0 THEN NoMatch
  ELSE [ok |-> TRUE,
        engine |-> SubSeq(hd.g, 1, k),
        options |-> Drop(hd.g, k + 1),
        code |-> SubSeq(L, hd.h + 1, c - 1),
        close |-> c,
        rest |-> Drop(L[c], Len(ind) + Len(Fence) + 1)]

\* the match once the header line hd.h and its text hd.g are known
MatchHeader(L, ind, hd) ==
  IF hd.h = 0 \/ EngineLens(hd.g) = {} THEN NoMatch
  ELSE MatchClose(L, ind, hd, Max(EngineLens(hd.g)),
                  LineFrom(L, hd.h + 2, ind \o Fence))

\* \{? at the start of what follows the fence
AfterBrace(h0) == IF h0 # <<>> /\ h0[1] = "{" THEN Tail(h0) ELSE h0

\* the match once the indent of line i is known
MatchIndent(L, i, ind) ==
  IF ~StartsWith(Drop(L[i], Len(ind) + 1), Fence) THEN NoMatch
  ELSE MatchHeader(L, ind,
                   HeaderAt(L, i, AfterBrace(Drop(L[i], Len(ind) + Len(Fence) + 1))))

\* CHUNK_RE.match at the start of line i of L
ChunkMatch(L, i) == MatchIndent(L, i, SubSeq(L[i], 1, LeadLen(L[i], {" ", "\t"})))

\* the first line from which CHUNK_RE matches, 0 for none
RECURSIVE FirstMatch(_, _)
FirstMatch(L, from) ==
  IF from > Len(L) THEN 0
  ELSE IF ChunkMatch(L, from).ok THEN from
  ELSE FirstMatch(L, from + 1)

(***************************************************************************)
(* batch_qmd_to_ipynb.py: split_headings, ensure_code_cell_structure,      *)
(* qmd_to_cells, convert_file.                                             *)
(***************************************************************************)
\* re.match(r"^\s*#+\s+", line) for a line that was rstripped
HeadingRe(line) ==
  LET a == LStrip(line)
      n == LeadLen(a, {"#"})
  IN  n >= 1 /\ n < Len(a) /\ a[n + 1] \in WS

\* the first loop of split_headings: a heading line closes the block that
\* is open and opens the next one, which it stays part of
RECURSIVE HeadingBlocks(_, _)
HeadingBlocks(lines, current) ==
  IF lines = <<>> THEN (IF current # <<>> THEN <<current>> ELSE <<>>)
  ELSE LET line == RStrip(Head(lines))
       IN  IF HeadingRe(line) /\ current # <<>>
           THEN <<current>> \o HeadingBlocks(Tail(lines), <<line>>)
           ELSE HeadingBlocks(Tail(lines), Append(current, line))

\* no block is left out
StartsDroppedNever(t) == FALSE

\* t starts with "## Original Notebook Starts Here" or with "## Overview"
StartsDropped(t) ==
  /\ t # <<>>
  /\ \/ StartsWith(t[1], <<"#","#"," ","O","r","i","g","i","n","a","l"," ",
                           "N","o","t","e","b","o","o","k"," ",
                           "S","t","a","r","t","s"," ","H","e","r","e">>)
     \/ StartsWith(t[1], <<"#","#"," ","O","v","e","r","v","i","e","w">>)

\* b.rstrip() of every block
RStripEach(blocks) == [i \in 1..Len(blocks) |-> RStripText(blocks[i])]

\* split_headings(lines): the blocks, each by its lines
split_headings(lines) ==
  SelectSeq(RStripEach(SelectSeq(HeadingBlocks(lines, <<>>),
                                 LAMBDA b : ~StartsDropped(StripText(b)))),
            LAMBDA b : StripText(b) # <<>>)

\* ensure_code_cell_structure(cell)
ensure_code_cell_structure(cell) ==
  IF GetOrNone(cell, "cell_type") # CodeType THEN cell
  ELSE LET c1 == IF HasKey(cell, "outputs") THEN cell
                 ELSE SetKey(cell, "outputs", JArr(<<>>))
       IN  IF HasKey(c1, "execution_count") THEN c1
           ELSE SetKey(c1, "execution_count", JNull)

\* one markdown cell for every block
BlockCells(blocks) ==
  [i \in 1..Len(blocks) |-> ensure_code_cell_structure(MarkdownCell(blocks[i]))]

\* the markdown cells of the text of a span (lines 101-109 and 154-162)
ProseCells(span) ==
  BlockCells(SelectSeq(split_headings(StripText(span)),
                       LAMBDA b : StripText(b) # <<>>))

\* re.split(r',\s*', s)
RECURSIVE SplitComma(_)
SplitComma(s) ==
  LET n == LeadLen(s, {s[i] : i \in 1..Len(s)} \ {","})
  IN  IF n = Len(s) THEN <<s>>
      ELSE <<SubSeq(s, 1, n)>> \o SplitComma(LStrip(Drop(s, n + 2)))

\* option_comments (lines 116-119)
OptionComments(options_str) ==
  LET parts == SplitComma(Strip(options_str))
      marked == SelectSeq(parts, LAMBDA p : StartsWith(Strip(p), OptMarker))
  IN  [i \in 1..Len(marked) |-> Strip(marked[i])]

\* is_r (line 121)
IsREngine(engine) == engine \in {<<"r">>, <<>>} \/ StartsWith(engine, <<"r">>)

\* the code cell of one match (lines 112-150, the setup cells apart)
ChunkCell(m) ==
  LET engine == Lower(Strip(m.engine))
      code == RStripText(m.code)
  IN  ensure_code_cell_structure(
        IF IsREngine(engine)
        THEN CodeCell(<< <<"%%R">> >> \o OptionComments(m.options)
                        \o (IF code # <<>> THEN << <<>> >> \o code ELSE <<>>))
        ELSE CodeCell(<< Fence \o engine >> \o code \o << Fence >>))

\* the loop over CHUNK_RE.finditer(content) and the text after the last
\* match: L is content from pos on, atLineStart tells whether pos is the
\* start of a line, found is first_r_chunk_found
RECURSIVE ScanChunks(_, _, _)

\* the cells of match m and of what follows it
ScanChunk(L, found, m, is_r) ==
  (IF is_r /\ ~found THEN SetupCells ELSE <<>>)
    \o <<ChunkCell(m)>>
    \o ScanChunks(<<m.rest>> \o Drop(L, m.close + 1), FALSE, found \/ is_r)

\* the cells from the first match on, which is at line i, 0 for none
ScanFrom(L, found, i, m) ==
  IF i = 0 THEN ProseCells(L)
  ELSE ProseCells(SubSeq(L, 1, i - 1))
         \o ScanChunk(L, found, m, IsREngine(Lower(Strip(m.engine))))

FirstMatchFrom(L, found, i) ==
  ScanFrom(L, found, i, IF i = 0 THEN NoMatch ELSE ChunkMatch(L, i))

ScanChunks(L, atLineStart, found) ==
  FirstMatchFrom(L, found, FirstMatch(L, IF atLineStart THEN 1 ELSE 2))

\* qmd_to_cells(content)
qmd_to_cells(doc) == <<BANNER>> \o ScanChunks(SplitLines(LayoutSubFrom(Text(doc), 1)), TRUE, FALSE)

\* the notebook convert_file writes
BatchNotebook(cs) ==
  JObj(<<Member("cells", JArr(cs)),
         Member("metadata",
                JObj(<<Member("kernelspec",
                              JObj(<<Member("display_name", JStr(<<"R">>)),
                                     Member("language", JStr(<<"R">>)),
                                     Member("name", JStr(<<"ir">>))>>)),
                       Member("colab", JObj(<<Member("toc_visible", JLit("true"))>>))>>)),
         Member("nbformat", JLit("4")), Member("nbformat_minor", JLit("5"))>>)

\* lines 171-186 of convert_file for the cell list cs
Converted(cs) ==
  [msg |-> "Success", written |-> TRUE, raised |-> FALSE, cells |-> cs,
   bytes |-> Dumps(BatchNotebook(cs), ConvertStyle)]

\* convert_file(in_path, out_path): what it prints, and the file it writes
\* when reading and writing succeed; any exception is caught
convert_file(doc, canRead, canWrite) ==
  IF canRead /\ canWrite THEN Converted(qmd_to_cells(doc))
  ELSE [msg |-> "Failed", written |-> FALSE, raised |-> FALSE,
        cells |-> <<>>, bytes |-> <<>>]

(***************************************************************************)
(* modify_notebooks.py: process_notebook.                                  *)
(* The fixed lines it looks for and writes are one piece each, followed by *)
(* the "\n" a notebook line ends with; Holds tells which of the searched   *)
(* substrings such a piece contains.  Text typed character by character    *)
(* spells none of them within the alphabets used here.                     *)
(***************************************************************************)
RMarkerLine == <<"%%R", "\n">>

\* the searched substrings a piece contains
Holds(piece) ==
  CASE piece = "new_packages <- packages[!(packages %in% installed.packages()[,'Package'])]"
         -> {"installed.packages()"}
    [] piece = "if(length(new_packages)) install.packages(new_packages)"
         -> {"install.packages(new_packages", "install.packages"}
    [] piece = "# Install missing packages" -> {"Install missing packages"}
    [] piece = "new.packages <- packages[!(packages %in% installed.packages(lib='drive/My Drive/R/')[,'Package'])]" -> {}
    [] piece = "if(length(new.packages)) install.packages(new.packages, lib='drive/My Drive/R/')" -> {"install.packages(new.packages", "install.packages"}
    [] piece = "# Load packages with suppressed messages" -> {"Load packages with suppressed messages"}
    [] piece = "invisible(lapply(packages, function(pkg) {" -> {"invisible(lapply"}
    [] piece = "  suppressPackageStartupMessages(library(pkg, character.only = TRUE))" -> {"suppressPackageStartupMessages"}
    [] piece = "}))" -> {"}))"}
    [] OTHER -> {}

\* needle in line
InLine(needle, line) == \E i \in 1..Len(line) : needle \in Holds(line[i])

\* needle in ''.join(lines)
InBlock(needle, lines) == \E i \in 1..Len(lines) : InLine(needle, lines[i])

\* the lines written for an install block (lines 42-48)
NewInstallBlock ==
  <<RMarkerLine,
    <<"# Install missing packages", "\n">>,
    <<"new.packages <- packages[!(packages %in% installed.packages(lib='drive/My Drive/R/')[,'Package'])]", "\n">>,
    <<"if(length(new.packages)) install.packages(new.packages, lib='drive/My Drive/R/')", "\n">>,
    <<"\n">> >>

\* the lines written for a library block (lines 62-70)
NewLibraryBlock ==
  <<RMarkerLine, <<"# set library path", "\n">>,
    <<".libPaths('drive/My Drive/R')", "\n">>,
    <<"# Load packages with suppressed messages", "\n">>,
    <<"invisible(lapply(packages, function(pkg) {", "\n">>,
    <<"  suppressPackageStartupMessages(library(pkg, character.only = TRUE))", "\n">>,
    <<"}))">>, <<"\n">>, <<"\n">> >>

\* the inner loop of lines 51-52, from index i (1-based) on
RECURSIVE SkipInstall(_, _)
SkipInstall(lines, i) ==
  IF i <= Len(lines) /\ ~StartsWith(Strip(lines[i]), <<"%%R">>)
       /\ InLine("install.packages", lines[i])
  THEN SkipInstall(lines, i + 1) ELSE i

\* the inner loop of lines 74-75
RECURSIVE SkipToClose(_, _)
SkipToClose(lines, i) ==
  IF i <= Len(lines) /\ ~InLine("}))", lines[i])
  THEN SkipToClose(lines, i + 1) ELSE i

\* the while loop over the source lines of one code cell (lines 23-80);
\* i is 1-based, so "i + 6 < len(lines)" reads i + 5 < Len(lines)
RECURSIVE ProcessLines(_, _, _, _)
ProcessLines(lines, i, new_lines, changed) ==
  IF i > Len(lines) THEN [lines |-> new_lines, changed |-> changed]
  ELSE LET line == lines[i]
           block == SubSeq(lines, i, IF i + 9 <= Len(lines) THEN i + 9 ELSE Len(lines))
           isInstall ==
             \/ /\ InBlock("Install missing packages", block)
                /\ InBlock("installed.packages()", block)
                /\ InBlock("install.packages(new_packages", block)
             \/ InBlock("install.packages(new.packages", block)
           isLibrary ==
             /\ InBlock("Load packages with suppressed messages", block)
             /\ InBlock("invisible(lapply", block)
             /\ InBlock("suppressPackageStartupMessages", block)
       IN  IF StartsWith(Strip(line), OptMarker)
           THEN ProcessLines(lines, i + 1, new_lines, TRUE)
           ELSE IF i + 5 < Len(lines) /\ Strip(line) = <<"%%R">> /\ isInstall
           THEN ProcessLines(lines, SkipInstall(lines, i) + 1,
                             new_lines \o NewInstallBlock, TRUE)
           ELSE IF i + 5 < Len(lines) /\ Strip(line) = <<"%%R">> /\ isLibrary
           THEN ProcessLines(lines, SkipToClose(lines, i + 1) + 1,
                             new_lines \o NewLibraryBlock, TRUE)
           ELSE ProcessLines(lines, i + 1, Append(new_lines, line), changed)

\* a cell the loop of process_notebook can handle: a dict with "cell_type"
\* and, when that is "code", a list of strings as "source"
CellIsWellFormed(cell) ==
  /\ IsObj(cell) /\ HasKey(cell, "cell_type")
  /\ (Get(cell, "cell_type") = CodeType =>
        /\ HasKey(cell, "source") /\ Get(cell, "source").t = "arr"
        /\ \A i \in 1..Len(Get(cell, "source").a) : Get(cell, "source").a[i].t = "str")

\* the body of the loop over the cells for one cell
ProcessCell(cell) ==
  IF Get(cell, "cell_type") # CodeType THEN cell
  ELSE SetKey(cell, "source",
              JLines(ProcessLines(LinesOf(Get(cell, "source")), 1, <<>>, FALSE).lines))

CellChanged(cell) ==
  /\ Get(cell, "cell_type") = CodeType
  /\ ProcessLines(LinesOf(Get(cell, "source")), 1, <<>>, FALSE).changed

\* the cells the loop of line 19 runs over
CellsOfNotebook(nb) ==
  IF HasKey(nb, "cells") /\ Get(nb, "cells").t = "arr" THEN Get(nb, "cells").a ELSE <<>>

\* iterating nb["cells"] raises
CellsNotIterable(c) == c.t # "arr" /\ (c.t = "lit" \/ c.s # <<>> \/ c.a # <<>>)

\* lines 19-93 of process_notebook for the notebook nb with the cells cs
ProcessCells(bytes, p, nb, cs) ==
  IF \/ HasKey(nb, "cells") /\ CellsNotIterable(Get(nb, "cells"))
     \/ \E i \in 1..Len(cs) : ~CellIsWellFormed(cs[i])
  THEN [bytes |-> bytes, msg |-> "raised", changed |-> FALSE, raised |-> TRUE]
  ELSE IF ~(\E i \in 1..Len(cs) : CellChanged(cs[i]))
       THEN [bytes |-> bytes, msg |-> "No changes needed", changed |-> FALSE,
             raised |-> FALSE]
  ELSE IF ~p.writable
       THEN [bytes |-> bytes, msg |-> "raised", changed |-> FALSE, raised |-> TRUE]
  ELSE [bytes |-> Dumps(SetKey(nb, "cells",
                               JArr([i \in 1..Len(cs) |-> ProcessCell(cs[i])])),
                        JupyterStyle),
        msg |-> "MODIFIED", changed |-> TRUE, raised |-> FALSE]

\* lines 13-17 of process_notebook, r being what json.load gave
ProcessLoaded(bytes, p, r) ==
  IF ~p.readable \/ ~r.ok \/ ~IsObj(r.val)
  THEN [bytes |-> bytes, msg |-> "raised", changed |-> FALSE, raised |-> TRUE]
  ELSE ProcessCells(bytes, p, r.val, CellsOfNotebook(r.val))

\* process_notebook(filepath): the file it leaves, what it returns, and
\* whether an exception left it (nothing in it is caught: a file that is
\* no JSON dict, a "cells" that cannot be iterated or whose items are no
\* cells, an unwritable file)
process_notebook(bytes, p) == ProcessLoaded(bytes, p, Loads(bytes))

(***************************************************************************)
(* Documents: up to MaxSegs segments, each a heading, a line of prose, a   *)
(* blank line, or a fenced chunk (R, R with an option line in its body,    *)
(* another engine, an engine whose name starts with r, no engine, or one   *)
(* that is never closed).                                                  *)
(***************************************************************************)
MaxSegs == 2

HeadingLine == <<"#", " ", "T">>
TextLine == <<"t">>
BlankLine == <<>>
CodeLine == <<"x">>
FenceR == Fence \o <<"{", "r", "}">>
FencePython == Fence \o <<"{", "p", "y", "t", "h", "o", "n", "}">>

Segments ==
  { <<HeadingLine>>, <<TextLine>>, <<BlankLine>>,
    <<FenceR, CodeLine, Fence>>,
    <<FenceR, <<"#", "|", " ", "o">>, CodeLine, Fence>>,
    <<FencePython, CodeLine, Fence>>,
    <<Fence \o <<"{", "r", "u", "b", "y", "}">>, CodeLine, Fence>>,
    <<Fence, CodeLine, CodeLine, Fence>>,
    <<FenceR, CodeLine>> }

Docs == { Flatten(ss) : ss \in UNION { [1..n -> Segments] : n \in 0..MaxSegs } }

AllPerms == [readable |-> TRUE, writable |-> TRUE]

(***************************************************************************)
(* One file through batch_qmd_to_ipynb.py and the passes run over its      *)
(* notebook afterwards.                                                    *)
(***************************************************************************)
InitConvert ==
  /\ content \in Docs
  /\ cells = <<>>
  /\ nbfile = <<>>
  /\ perm = AllPerms
  /\ before = <<>>
  /\ report = "none"
  /\ prev = "none"
  /\ passes = 0
  /\ run = NoRun

\* convert_file(in_path, out_path) on the document
Convert ==
  /\ report = "none"
  /\ \E res \in {convert_file(content, perm.readable, perm.writable)} :
       /\ cells' = res.cells
       /\ nbfile' = res.bytes
       /\ report' = res.msg
  /\ before' = nbfile
  /\ prev' = report
  /\ UNCHANGED <<content, perm, passes, run>>

\* one run of process_notebook over nbfile
ProcessPass ==
  /\ nbfile # <<>>
  /\ passes < MaxPasses
  /\ \E res \in {process_notebook(nbfile, perm)} :
       /\ nbfile' = res.bytes
       /\ report' = res.msg
  /\ before' = nbfile
  /\ prev' = report
  /\ passes' = passes + 1
  /\ UNCHANGED <<content, cells, perm, run>>

NextConvert == Convert \/ RepairPass \/ ProcessPass

SpecConvert == InitConvert /\ [][NextConvert]_vars

\* the cells of the notebook a file holds
FileCells(bytes) == Get(DataOf(bytes), "cells").a

\* a code cell with "outputs": [] and "execution_count": null
HasEmptyOutputFields(cell) ==
  /\ HasKey(cell, "outputs") /\ Get(cell, "outputs") = JArr(<<>>)
  /\ HasKey(cell, "execution_count") /\ Get(cell, "execution_count") = JNull

\* C1: once the converter has run, every code cell of the cell list it built
\* and of the notebook file it wrote has "outputs" equal to the empty list
\* and "execution_count" equal to null, and the same holds of the file after
\* every later run of repair_notebook or process_notebook over it.
C1_CodeCellFields ==
  report # "none" =>
    LET r == Loads(nbfile)
        fc == Get(r.val, "cells").a
    IN  /\ \A i \in 1..Len(cells) :
             Get(cells[i], "cell_type") = CodeType => HasEmptyOutputFields(cells[i])
        /\ r.ok
        /\ \A i \in 1..Len(fc) :
             Get(fc[i], "cell_type") = CodeType => HasEmptyOutputFields(fc[i])

\* C1 witness: the notebook of a document with an R chunk and a chunk of
\* another engine, after a process_notebook run that rewrote it and a
\* repair_notebook run.
C1_Witness ==
  /\ passes = 2 /\ prev = "MODIFIED" /\ report = "OK"
  /\ LET fc == FileCells(nbfile)
     IN  \E i, j \in 1..Len(fc) :
           /\ Get(fc[i], "cell_type") = CodeType /\ Get(fc[j], "cell_type") = CodeType
           /\ LinesOf(Get(fc[i], "source"))[1] = <<"%%R">>
           /\ StartsWith(LinesOf(Get(fc[j], "source"))[1], Fence)

(***************************************************************************)
(* What the claims call a chunk, a heading and a prose run, read off the   *)
(* document itself: a line that starts with three back quotes opens a      *)
(* chunk, the next line that is three back quotes closes it, and the tag   *)
(* is the name in the braces of the opening line.                          *)
(***************************************************************************)
IsFenceLine(line) == StartsWith(line, Fence)

\* the engine name in the braces of an opening line, <<>> for none
TagOf(line) ==
  LET t == Drop(line, Len(Fence) + 1)
  IN  IF t # <<>> /\ t[1] = "{"
      THEN SubSeq(t, 2, 1 + LeadLen(Tail(t), EngineCh))
      ELSE <<>>

\* the chunks of a document as [tag, body] in order; open tells whether a
\* chunk is open at line i, and a chunk left open at the end is dropped
RECURSIVE ChunksFrom(_, _, _, _)
ChunksFrom(lines, i, open, body) ==
  IF i > Len(lines) THEN <<>>
  ELSE IF open = 0
       THEN ChunksFrom(lines, i + 1, IF IsFenceLine(lines[i]) THEN i ELSE 0, <<>>)
  ELSE IF RStrip(lines[i]) = Fence
       THEN <<[tag |-> TagOf(lines[open]), body |-> body]>>
              \o ChunksFrom(lines, i + 1, 0, <<>>)
  ELSE ChunksFrom(lines, i + 1, open, Append(body, lines[i]))

ChunksOf(doc) == ChunksFrom(doc, 1, 0, <<>>)

\* every fence of the document opens a tagged chunk or closes one
RECURSIVE WellFencedFrom(_, _, _)
WellFencedFrom(lines, i, open) ==
  IF i > Len(lines) THEN ~open
  ELSE IF ~open
       THEN IF IsFenceLine(lines[i])
            THEN TagOf(lines[i]) # <<>> /\ WellFencedFrom(lines, i + 1, TRUE)
            ELSE WellFencedFrom(lines, i + 1, FALSE)
  ELSE WellFencedFrom(lines, i + 1, RStrip(lines[i]) # Fence)

WellFenced(doc) == WellFencedFrom(doc, 1, FALSE)

\* the tag names the primary language
IsRTag(tag) == Lower(tag) = <<"r">>

\* the positions at which the setup cells start in a cell list
SetupPositions(cs) ==
  {p \in 1..Len(cs) : p + Len(SetupCells) - 1 <= Len(cs)
                       /\ SubSeq(cs, p, p + Len(SetupCells) - 1) = SetupCells}

\* the number of code cells among the first n cells that are no setup cell
CodeCellsBefore(cs, n) ==
  Cardinality({i \in 1..n : Get(cs[i], "cell_type") = CodeType})

\* C2: in the cell list of a document whose fences pair up, the setup cells
\* occur exactly once when the document has a chunk tagged r, right before
\* the cell of the first such chunk (as many chunk cells precede them as
\* chunks precede that chunk, and a code cell follows them), and not at all
\* when it has none.
C2_BoilerplateOnce ==
  (report # "none" /\ WellFenced(content)) =>
    LET chunks == ChunksOf(content)
        rs == {i \in 1..Len(chunks) : IsRTag(chunks[i].tag)}
        at == SetupPositions(cells)
    IN  IF rs = {} THEN at = {}
        ELSE /\ Cardinality(at) = 1
             /\ \A p \in at :
                  /\ CodeCellsBefore(cells, p - 1) = Min(rs) - 1
                  /\ p + Len(SetupCells) <= Len(cells)
                  /\ Get(cells[p + Len(SetupCells)], "cell_type") = CodeType

\* a heading line as C5 words it: one or more "#", then white space or the
\* end of the line
IsHeading(line) ==
  LET n == LeadLen(line, {"#"})
  IN  n >= 1 /\ (n = Len(line) \/ line[n + 1] \in WS)

\* the lines of a sequence that satisfy a test, in order
HeadingLines(lines) == SelectSeq(lines, IsHeading)

\* the number of maximal runs of non-heading lines that hold some text
RECURSIVE TextRuns(_, _)
TextRuns(lines, inRun) ==
  IF lines = <<>> THEN 0
  ELSE IF IsHeading(Head(lines)) THEN TextRuns(Tail(lines), FALSE)
  ELSE IF IsBlank(Head(lines)) \/ inRun THEN TextRuns(Tail(lines), inRun)
  ELSE 1 + TextRuns(Tail(lines), TRUE)

\* the source lines of the cells after the banner
ProseSources(cs) == [i \in 1..Len(cs) - 1 |-> LinesOf(Get(cs[i + 1], "source"))]

\* C5: in the cell list of a document without fences, every heading line is
\* a cell of its own, in source order, no cell holds a heading line next to
\* another line, and every run of other lines between headings that holds
\* text is one cell.
C5_HeadingsIsolated ==
  (report # "none" /\ \A i \in 1..Len(content) : ~IsFenceLine(content[i])) =>
    LET srcs == ProseSources(cells)
        heads == SelectSeq(srcs, LAMBDA s : \E k \in 1..Len(s) : IsHeading(s[k]))
    IN  /\ \A i \in 1..Len(heads) : Len(heads[i]) = 1
        /\ [i \in 1..Len(heads) |-> heads[i][1]] = HeadingLines(content)
        /\ Len(srcs) - Len(heads) = TextRuns(content, FALSE)

\* the lines of a code cell that come from the body of its chunk: those
\* after the blank line of a %%R cell, those between the fences of another
BodyLines(src) ==
  IF src[1] = <<"%%R">>
  THEN (IF \E k \in 1..Len(src) : src[k] = <<>>
        THEN Drop(src, Min({k \in 1..Len(src) : src[k] = <<>>}) + 1)
        ELSE <<>>)
  ELSE SubSeq(src, 2, Len(src) - 1)

\* C10: no line that a code cell of the converter takes from the body of a
\* chunk starts, once trimmed, with the option marker.
C10_NoOptionLines ==
  report # "none" =>
    \A i \in Len(SetupCells) + 2..Len(cells) :
      Get(cells[i], "cell_type") = CodeType =>
        LET body == BodyLines(LinesOf(Get(cells[i], "source")))
        IN  \A k \in 1..Len(body) : ~StartsWith(Strip(body[k]), OptMarker)

(***************************************************************************)
(* rmd_to_colab_01.py and rmd_to_colab.py.  Both hold a cell's source as   *)
(* one text; the cells are those of nbformat's new_markdown_cell and       *)
(* new_code_cell.                                                          *)
(***************************************************************************)
new_markdown_cell(text) ==
  JObj(<<Member("cell_type", MarkdownType), Member("metadata", JObj(<<>>)),
         Member("source", JStr(text))>>)

new_code_cell(text) ==
  JObj(<<Member("cell_type", CodeType), Member("metadata", JObj(<<>>)),
         Member("source", JStr(text)), OutputsMember, CountMember>>)

\* "\n".join(lines)
RECURSIVE JoinLines(_)
JoinLines(lines) ==
  IF lines = <<>> THEN <<>>
  ELSE IF Len(lines) = 1 THEN lines[1]
  ELSE lines[1] \o <<"\n">> \o JoinLines(Tail(lines))

remove_knitr_quarto_options(text) ==
  JoinLines(SelectSeq(SplitLines(text),
                      LAMBDA line : ~StartsWith(Strip(line), OptMarker)))

\* whether the pattern of remove_layout_block matches at position i, and
\* where it ends
LayoutEnd3(text, i) ==
  LET q == i + 1 + LeadLen(Drop(text, i + 1), WS)
  IN  IF text[i] = ":::" /\ q < Len(text) /\ text[q] = "{layout-ncol"
         /\ text[q + 1] = "=\"3\"}"
      THEN IndexFrom(text, q + 2, ":::")
      ELSE 0

RECURSIVE remove_layout_block(_, _)
remove_layout_block(text, from) ==
  LET starts == {i \in from..Len(text) : LayoutEnd3(text, i) # 0}
  IN  IF starts = {} THEN Drop(text, from)
      ELSE SubSeq(text, from, Min(starts) - 1)
             \o remove_layout_block(text, LayoutEnd3(text, Min(starts)) + 1)

is_heading_line(line) ==
  LET stripped == LStrip(line)
      after_hash == Drop(stripped, LeadLen(stripped, {"#"}) + 1)
  IN  /\ StartsWith(stripped, <<"#">>)
      /\ (StartsWith(after_hash, <<" ">>) \/ after_hash = <<>>)

\* the texts split_markdown_into_heading_cells returns for md_lines when
\* the loop starts with current_block
RECURSIVE split_markdown_into_heading_cells(_, _)
split_markdown_into_heading_cells(md_lines, current_block) ==
  LET flush == IF current_block # <<>> THEN <<JoinLines(current_block)>> ELSE <<>>
  IN  IF md_lines = <<>> THEN flush
      ELSE IF is_heading_line(Head(md_lines))
           THEN flush \o <<Head(md_lines)>>
                  \o split_markdown_into_heading_cells(Tail(md_lines), <<>>)
      ELSE split_markdown_into_heading_cells(Tail(md_lines),
                                             Append(current_block, Head(md_lines)))

\* chunk_start_re matches line.rstrip(), and the language it captures
ChunkLang(line) ==
  LET l == RStrip(line)
      n == LeadLen(Drop(l, Len(Fence) + 2), WordCh)
  IN  IF StartsWith(l, Fence \o <<"{">>) /\ n >= 1
         /\ StartsWith(Drop(l, Len(Fence) + 2 + n), <<"}">>)
      THEN SubSeq(l, Len(Fence) + 2, Len(Fence) + 1 + n)
      ELSE <<>>

ChunkStart(line) == ChunkLang(line) # <<>>

image_md ==
  <<"![All-test](http://drive.google.com/uc?export=view&id=1bLQ3nhDbZrCCqy_WCxxckOne2lgVvn3l)">>

setup_code ==
  JoinLines(<< <<"# Install rpy2">>,
               <<"from google.colab import drive">>,
               <<"drive.mount('/content/drive')">>,
               <<>>,
               <<"## Mount Google Drive">>,
               <<"from google.colab import drive">>,
               <<"drive.mount('/content/drive')">> >>)

\* the cells of one chunk that starts at line i and ends before line close
ChunkCells(lines, i, close, first_r_seen) ==
  LET code_body == JoinLines(SubSeq(lines, i + 1, close - 1))
  IN  IF Lower(ChunkLang(lines[i])) = <<"r">>
      THEN (IF first_r_seen THEN <<>> ELSE <<new_code_cell(setup_code)>>)
             \o <<new_code_cell(<<"%%R", "\n">> \o code_body)>>
      ELSE <<new_code_cell(code_body)>>

\* where the chunk that starts at line i stops: the first closing fence
\* after it, the end of the document for none
ChunkClose(lines, i) ==
  LET ends == {k \in i + 1..Len(lines) : RStrip(lines[k]) = Fence}
  IN  IF ends = {} THEN Len(lines) + 1 ELSE Min(ends)

\* where the prose that starts at line i stops: the next chunk start
ProseStop(lines, i) ==
  LET starts == {k \in i..Len(lines) : ChunkStart(lines[k])}
  IN  IF starts = {} THEN Len(lines) + 1 ELSE Min(starts)

\* the test on a prose text before it becomes a cell
IsMeaningful(cell_content) ==
  \/ Strip(cell_content) # <<>>
  \/ (\E k \in 1..Len(cell_content) : cell_content[k] = "\n")
  \/ Strip(cell_content) # <<>>

\* the while loop of rmd_to_colab_01.convert_qmd_to_ipynb from line i on
RECURSIVE ScanLines01(_, _, _)
ScanLines01(lines, i, first_r_seen) ==
  IF i > Len(lines) THEN <<>>
  ELSE IF ChunkStart(lines[i])
       THEN LET close == ChunkClose(lines, i)
            IN  ChunkCells(lines, i, close, first_r_seen)
                  \o ScanLines01(lines, close + 1,
                                 first_r_seen \/ Lower(ChunkLang(lines[i])) = <<"r">>)
  ELSE LET stop == ProseStop(lines, i)
           heading_cells ==
             split_markdown_into_heading_cells(SubSeq(lines, i, stop - 1), <<>>)
           kept == SelectSeq(heading_cells, IsMeaningful)
       IN  [k \in 1..Len(kept) |-> new_markdown_cell(kept[k])]
             \o ScanLines01(lines, stop, first_r_seen)

\* the while loop of rmd_to_colab.convert_qmd_to_ipynb from line i on
RECURSIVE ScanLines(_, _, _)
ScanLines(lines, i, first_r_seen) ==
  IF i > Len(lines) THEN <<>>
  ELSE IF ChunkStart(lines[i])
       THEN LET close == ChunkClose(lines, i)
            IN  ChunkCells(lines, i, close, first_r_seen)
                  \o ScanLines(lines, close + 1,
                               first_r_seen \/ Lower(ChunkLang(lines[i])) = <<"r">>)
  ELSE LET stop == ProseStop(lines, i)
       IN  <<new_markdown_cell(JoinLines(SubSeq(lines, i, stop - 1)))>>
             \o ScanLines(lines, stop, first_r_seen)

\* the lines both converters scan: the layout block and the option lines
\* are gone
CleanLines(doc) ==
  SplitLines(remove_knitr_quarto_options(remove_layout_block(Text(doc), 1)))

\* the cells of rmd_to_colab_01.convert_qmd_to_ipynb
Cells01(doc) == <<new_markdown_cell(image_md)>> \o ScanLines01(CleanLines(doc), 1, FALSE)

\* the cells of rmd_to_colab.convert_qmd_to_ipynb
Cells00(doc) == <<new_markdown_cell(image_md)>> \o ScanLines(CleanLines(doc), 1, FALSE)

(***************************************************************************)
(* The mains: one run of a script over a directory.  The files of the      *)
(* directory are met one by one; what a file holds and whether it can be   *)
(* read and written is drawn when the loop comes to it.                    *)
(***************************************************************************)
MaxFiles == 2

\* convert_qmd_to_ipynb of rmd_to_colab_01.py: open() for reading or for
\* writing raises, and nothing catches it
convert_qmd_to_ipynb_01(doc, canRead, canWrite) ==
  IF ~canRead
  THEN [msg |-> "raised", written |-> FALSE, raised |-> TRUE, cells |-> <<>>]
  ELSE IF ~canWrite
       THEN [msg |-> "raised", written |-> FALSE, raised |-> TRUE, cells |-> Cells01(doc)]
  ELSE [msg |-> "Converted", written |-> TRUE, raised |-> FALSE, cells |-> Cells01(doc)]

\* convert_qmd_to_ipynb of rmd_to_colab.py
convert_qmd_to_ipynb(doc, canRead, canWrite) ==
  IF ~canRead
  THEN [msg |-> "raised", written |-> FALSE, raised |-> TRUE, cells |-> <<>>]
  ELSE IF ~canWrite
       THEN [msg |-> "raised", written |-> FALSE, raised |-> TRUE, cells |-> Cells00(doc)]
  ELSE [msg |-> "Converted", written |-> TRUE, raised |-> FALSE, cells |-> Cells00(doc)]

RunDocs ==
  { Flatten(ss) :
      ss \in UNION { [1..n -> { <<HeadingLine>>, <<TextLine>>, <<BlankLine, BlankLine>>,
                                <<FenceR, CodeLine, Fence>>,
                                <<FencePython, CodeLine, Fence>>,
                                <<FenceR, CodeLine>> }] : n \in 0..MaxSegs } }

RunNotebooks ==
  { Dumps(Notebook(cs), JupyterStyle) : cs \in {c \in CellLists : Len(c) <= 1} }
    \cup OddFiles

InitRun ==
  /\ run \in { r \in [tool : {"batch", "colab01", "colab", "repair"}, dirExists : BOOLEAN, todo : 0..MaxFiles,
                      done : {0}, status : {"start"}] : r.dirExists \/ r.todo = 0 }
  /\ content = <<>>
  /\ cells = <<>>
  /\ nbfile = <<>>
  /\ perm = AllPerms
  /\ before = <<>>
  /\ report = "none"
  /\ prev = "none"
  /\ passes = 0

\* how run stands once a file has gone through the loop body
AfterFile(raised) ==
  IF raised THEN [run EXCEPT !.status = "raised"]
  ELSE [run EXCEPT !.todo = @ - 1, !.done = @ + 1,
                   !.status = IF run.todo = 1 THEN "returned" ELSE "loop"]

\* main of batch_qmd_to_ipynb.py up to its loop: the directory is not
\* looked at, a missing one just lists no files
batch_main ==
  /\ run.tool = "batch" /\ run.status = "start"
  /\ run' = [run EXCEPT !.status = IF run.todo = 0 THEN "returned" ELSE "loop"]
  /\ UNCHANGED <<content, cells, nbfile, perm, before, report, prev, passes>>

\* one turn of the loop of batch main
batch_main_file ==
  /\ run.tool = "batch" /\ run.status = "loop"
  /\ \E doc \in RunDocs, p \in Perms :
       \E res \in {convert_file(doc, p.readable, p.writable)} :
           /\ content' = doc
           /\ perm' = p
           /\ cells' = res.cells
           /\ nbfile' = res.bytes
           /\ report' = res.msg
           /\ run' = AfterFile(res.raised)
  /\ before' = nbfile
  /\ prev' = report
  /\ UNCHANGED passes

\* main of rmd_to_colab_01.py up to its loop
colab01_main ==
  /\ run.tool = "colab01" /\ run.status = "start"
  /\ run' = [run EXCEPT !.status = IF ~run.dirExists THEN "raised"
                                   ELSE IF run.todo = 0 THEN "returned"
                                   ELSE "loop"]
  /\ UNCHANGED <<content, cells, nbfile, perm, before, report, prev, passes>>

\* one turn of the loop of rmd_to_colab_01 main
colab01_main_file ==
  /\ run.tool = "colab01" /\ run.status = "loop"
  /\ \E doc \in RunDocs, p \in Perms :
       \E res \in {convert_qmd_to_ipynb_01(doc, p.readable, p.writable)} :
           /\ content' = doc
           /\ perm' = p
           /\ cells' = res.cells
           /\ report' = res.msg
           /\ run' = AfterFile(res.raised)
  /\ prev' = report
  /\ UNCHANGED <<nbfile, before, passes>>

\* main of rmd_to_colab.py up to its loop
colab_main ==
  /\ run.tool = "colab" /\ run.status = "start"
  /\ run' = [run EXCEPT !.status = IF ~run.dirExists THEN "raised"
                                   ELSE IF run.todo = 0 THEN "returned"
                                   ELSE "loop"]
  /\ UNCHANGED <<content, cells, nbfile, perm, before, report, prev, passes>>

\* one turn of the loop of rmd_to_colab main
colab_main_file ==
  /\ run.tool = "colab" /\ run.status = "loop"
  /\ \E doc \in RunDocs, p \in Perms :
       \E res \in {convert_qmd_to_ipynb(doc, p.readable, p.writable)} :
           /\ content' = doc
           /\ perm' = p
           /\ cells' = res.cells
           /\ report' = res.msg
           /\ run' = AfterFile(res.raised)
  /\ prev' = report
  /\ UNCHANGED <<nbfile, before, passes>>

\* main of repair_notebooks.py up to its loop: sys.exit(1) when the target
\* is no directory
repair_main ==
  /\ run.tool = "repair" /\ run.status = "start"
  /\ run' = [run EXCEPT !.status = IF ~run.dirExists THEN "exited"
                                   ELSE IF run.todo = 0 THEN "returned"
                                   ELSE "loop"]
  /\ UNCHANGED <<content, cells, nbfile, perm, before, report, prev, passes>>

\* one turn of the loop of repair main
repair_main_file ==
  /\ run.tool = "repair" /\ run.status = "loop"
  /\ \E bytes \in RunNotebooks, p \in Perms :
       \E res \in {RepairNotebook(bytes, p)} :
           /\ before' = bytes
           /\ perm' = p
           /\ nbfile' = res.bytes
           /\ report' = res.msg
           /\ run' = AfterFile(res.raised)
  /\ prev' = report
  /\ UNCHANGED <<content, cells, passes>>

NextRun ==
  \/ batch_main \/ batch_main_file
  \/ colab01_main \/ colab01_main_file
  \/ colab_main \/ colab_main_file
  \/ repair_main \/ repair_main_file

SpecRun == InitRun /\ [][NextRun]_vars

\* the exit status of a run that has ended: 0 when main returned, 1 when
\* sys.exit(1) or an exception nothing caught ended it
Ended == run.status \in {"returned", "exited", "raised"}
ExitStatus == IF run.status = "returned" THEN 0 ELSE 1

(***************************************************************************)
(* Claims about the converters' cells and about the runs of the mains.     *)
(***************************************************************************)
Converters == {"batch", "colab01", "colab"}

\* what a converter prints for a file it converted
SuccessReports == {"Success", "Converted"}

\* the source of a cell as one text, and as lines, whichever way it is held
SourceText(cell) ==
  IF Get(cell, "source").t = "str" THEN Get(cell, "source").s
  ELSE Flatten(LinesOf(Get(cell, "source")))

SourceLines(cell) ==
  IF Get(cell, "source").t = "str" THEN SplitLines(Get(cell, "source").s)
  ELSE LinesOf(Get(cell, "source"))

\* C6: no markdown cell of a converted document is empty or white space
\* only, and a document of nothing but blank lines yields no cell besides
\* the leading banner or image cell.
C6_NoEmptyMarkdown ==
  (run.tool \in Converters /\ report \in SuccessReports) =>
    /\ \A i \in 1..Len(cells) :
         Get(cells[i], "cell_type") = MarkdownType =>
           \E k \in 1..Len(SourceText(cells[i])) : SourceText(cells[i])[k] \notin WS
    /\ (\A k \in 1..Len(content) : IsBlank(content[k])) => Len(cells) = 1

\* the line of the fence that is still open at the end of the document, 0
\* when every fence is closed
RECURSIVE OpenFrom(_, _, _)
OpenFrom(lines, i, open) ==
  IF i > Len(lines) THEN open
  ELSE IF open = 0
       THEN OpenFrom(lines, i + 1, IF IsFenceLine(lines[i]) THEN i ELSE 0)
  ELSE OpenFrom(lines, i + 1, IF RStrip(lines[i]) = Fence THEN 0 ELSE open)

OpenAtEnd(doc) == OpenFrom(doc, 1, 0)

\* C7: a readable document whose last fence is never closed is reported as
\* an error, and no line that follows the open fence ends up in a code
\* cell.
C7_UnterminatedFence ==
  (run.tool \in Converters /\ report # "none" /\ perm = AllPerms
     /\ OpenAtEnd(content) # 0) =>
    /\ report \notin SuccessReports
    /\ \A i \in 1..Len(cells) :
         Get(cells[i], "cell_type") = CodeType =>
           \A k \in OpenAtEnd(content) + 1..Len(content) :
             \A j \in 1..Len(SourceLines(cells[i])) :
               SourceLines(cells[i])[j] # content[k]

\* C8: a run over an existing directory ends only when every file has gone
\* through the loop; no file's failure ends it early.
C8_FailureIsolated == (Ended /\ run.dirExists) => run.todo = 0

\* C9: a run ends with a non-zero status exactly when its directory is
\* missing, and then no file has been processed.
C9_ExitStatus ==
  Ended => /\ (ExitStatus # 0) = ~run.dirExists
           /\ ~run.dirExists => run.done = 0

(***************************************************************************)
(* Claims about untagged blocks, cell order and process_notebook.          *)
(***************************************************************************)
\* the tag of a chunk of the primary language: r, or no tag at all
IsPrimaryTag(tag) == tag = <<>> \/ IsRTag(tag)

\* the code cells of a cell list that come from chunks
ChunkCellsOf(cs) ==
  SelectSeq(cs, LAMBDA c : Get(c, "cell_type") = CodeType
                             /\ c \notin {RPY2_CODE, DRIVE_CODE})

\* the first source line of the cell is the marker %%R
HasRMarker(cell) == SourceLines(cell) # <<>> /\ SourceLines(cell)[1] = <<"%%R">>

\* C11: in the cell list of a document whose fences are all closed, the
\* chunks have one code cell each, in order; the cell of a chunk carries the
\* marker %%R exactly when the chunk is tagged r or not tagged at all, and
\* the setup cells are there exactly when the document has such a chunk.
C11_UntaggedIsPrimary ==
  (report # "none" /\ OpenAtEnd(content) = 0) =>
    LET chunks == ChunksOf(content)
        code == ChunkCellsOf(cells)
    IN  /\ Len(code) = Len(chunks)
        /\ \A i \in 1..Len(code) :
             HasRMarker(code[i]) <=> IsPrimaryTag(chunks[i].tag)
        /\ (SetupPositions(cells) # {}) <=>
             (\E i \in 1..Len(chunks) : IsPrimaryTag(chunks[i].tag))

(***************************************************************************)
(* One document through one converter: convert_file of                     *)
(* batch_qmd_to_ipynb.py (the action Convert) or convert_qmd_to_ipynb of   *)
(* rmd_to_colab_01.py.  The documents have up to MaxSegs segments: a       *)
(* heading, a line of prose, an "## Overview" heading with a line below    *)
(* it, a chunk tagged r, a chunk tagged python, a chunk that is never      *)
(* closed, or a block with no tag.                                         *)
(***************************************************************************)
InitOrder ==
  /\ content \in
       { Flatten(ss) :
           ss \in UNION { [1..n -> { <<HeadingLine>>, <<TextLine>>,
                                     << <<"#","#"," ","O","v","e","r","v","i","e","w">>,
                                        <<"u">> >>,
                                     <<FenceR, CodeLine, Fence>>,
                                     <<FencePython, <<"y">>, Fence>>,
                                     <<FenceR, CodeLine>>,
                                     <<Fence, CodeLine, CodeLine, Fence>> }]
                            : n \in 0..MaxSegs } }
  /\ cells = <<>>
  /\ nbfile = <<>>
  /\ perm = AllPerms
  /\ before = <<>>
  /\ report = "none"
  /\ prev = "none"
  /\ passes = 0
  /\ run = NoRun

\* convert_qmd_to_ipynb(qmd_path, output_dir) of rmd_to_colab_01.py on the
\* document
Convert01 ==
  /\ report = "none"
  /\ \E res \in {convert_qmd_to_ipynb_01(content, perm.readable, perm.writable)} :
       /\ cells' = res.cells
       /\ report' = res.msg
  /\ prev' = report
  /\ run' = [run EXCEPT !.tool = "colab01"]
  /\ UNCHANGED <<content, nbfile, perm, before, passes>>

SpecOrder == InitOrder /\ [][Convert \/ Convert01]_vars

\* the lines of a text that carry content, trimmed: not the blank lines,
\* the option lines, the fence lines or the marker %%R
Payload(lines) ==
  [i \in 1..Len(SelectSeq(lines, LAMBDA l :
                    /\ Strip(l) # <<>>
                    /\ ~StartsWith(Strip(l), OptMarker)
                    /\ ~IsFenceLine(Strip(l))
                    /\ Strip(l) # <<"%%R">>))
     |-> Strip(SelectSeq(lines, LAMBDA l :
                    /\ Strip(l) # <<>>
                    /\ ~StartsWith(Strip(l), OptMarker)
                    /\ ~IsFenceLine(Strip(l))
                    /\ Strip(l) # <<"%%R">>)[i])]

\* a prose span with these content lines, none when it has no content
ProseItem(acc) == IF acc = <<>> THEN <<>> ELSE <<[kind |-> "prose", lines |-> acc]>>

\* the heading that opens a block batch_qmd_to_ipynb leaves out
IsLeftOutHeading(line) ==
  \/ StartsWith(Strip(line), <<"#","#"," ","O","v","e","r","v","i","e","w">>)
  \/ StartsWith(Strip(line), <<"#","#"," ","O","r","i","g","i","n","a","l"," ",
                               "N","o","t","e","b","o","o","k"," ",
                               "S","t","a","r","t","s"," ","H","e","r","e">>)

\* the prose spans and chunks of a document in order, each with its
\* content lines; open is the line of the open fence, acc the content of
\* the span or chunk being read, and with drops a left-out heading takes
\* the lines from it to the next heading or chunk out of the span (out
\* tells whether line i is under such a heading)
RECURSIVE DocItemsFrom(_, _, _, _, _, _)
DocItemsFrom(lines, i, open, acc, out, drops) ==
  IF i > Len(lines)
  THEN IF open = 0 THEN ProseItem(acc) ELSE <<[kind |-> "chunk", lines |-> acc]>>
  ELSE IF open # 0
       THEN IF RStrip(lines[i]) = Fence
            THEN <<[kind |-> "chunk", lines |-> acc]>>
                   \o DocItemsFrom(lines, i + 1, 0, <<>>, FALSE, drops)
            ELSE DocItemsFrom(lines, i + 1, open, acc \o Payload(<<lines[i]>>),
                              FALSE, drops)
  ELSE IF IsFenceLine(lines[i])
       THEN ProseItem(acc) \o DocItemsFrom(lines, i + 1, i, <<>>, FALSE, drops)
  ELSE IF IsHeading(lines[i])
       THEN IF drops /\ IsLeftOutHeading(lines[i])
            THEN DocItemsFrom(lines, i + 1, 0, acc, TRUE, drops)
            ELSE DocItemsFrom(lines, i + 1, 0, acc \o Payload(<<lines[i]>>),
                              FALSE, drops)
  ELSE IF out THEN DocItemsFrom(lines, i + 1, 0, acc, TRUE, drops)
  ELSE DocItemsFrom(lines, i + 1, 0, acc \o Payload(<<lines[i]>>), FALSE, drops)

DocItems(doc, drops) == DocItemsFrom(doc, 1, 0, <<>>, FALSE, drops)

\* the boilerplate cells of the two converters
BoilerplateCells ==
  {SetupCells[i] : i \in 1..Len(SetupCells)} \cup {new_code_cell(setup_code)}

\* the same reading of a cell list, from cell i on: a code cell is a chunk,
\* markdown cells that follow each other are one prose span, and the
\* boilerplate cells are passed over
RECURSIVE CellItemsFrom(_, _, _)
CellItemsFrom(cs, i, acc) ==
  IF i > Len(cs) THEN ProseItem(acc)
  ELSE IF cs[i] \in BoilerplateCells THEN CellItemsFrom(cs, i + 1, acc)
  ELSE IF Get(cs[i], "cell_type") = CodeType
       THEN ProseItem(acc)
              \o <<[kind |-> "chunk", lines |-> Payload(SourceLines(cs[i]))]>>
              \o CellItemsFrom(cs, i + 1, <<>>)
  ELSE CellItemsFrom(cs, i + 1, acc \o Payload(SourceLines(cs[i])))

\* without the leading banner or image cell
CellItems(cs) == CellItemsFrom(cs, 2, <<>>)

PairedFences(doc) ==
  /\ WellFenced(doc)
  /\ \A i \in 1..Len(ChunksOf(doc)) :
       \A k \in 1..Len(ChunksOf(doc)[i].body) : ~IsFenceLine(ChunksOf(doc)[i].body[k])

InitProcess ==
  /\ nbfile \in
       { Dumps(Notebook(cs), JupyterStyle) :
           cs \in UNION { [1..n ->
             { Cell(MarkdownType, << <<"#", " ", "T">> >>, <<>>),
               Cell(CodeType, << <<"x", "\n">> >>, <<OutputsMember, CountMember>>),
               Cell(CodeType, << <<"#", "|", " ", "o", "\n">>, <<"x">> >>,
                    <<OutputsMember, CountMember>>),
               Cell(CodeType,
                    << RMarkerLine,
                       <<"p", "\n">>,
                       <<"# Install missing packages", "\n">>,
                       <<"new_packages <- packages[!(packages %in% installed.packages()[,'Package'])]", "\n">>,
                       <<"if(length(new_packages)) install.packages(new_packages)", "\n">>,
                       <<"\n">>,
                       <<"x">> >>,
                    <<OutputsMember, CountMember>>),
               Cell(CodeType, NewInstallBlock, <<OutputsMember, CountMember>>),
               Cell(CodeType,
                    << RMarkerLine,
                       <<"# Load packages with suppressed messages", "\n">>,
                       <<"invisible(lapply(packages, function(pkg) {", "\n">>,
                       <<"  suppressPackageStartupMessages(library(pkg, character.only = TRUE))", "\n">>,
                       <<"}))", "\n">>,
                       <<"\n">>,
                       <<"x">> >>,
                    <<OutputsMember, CountMember>>) }] : n \in 0..MaxCells } }
  /\ perm \in Perms
  /\ before = nbfile
  /\ content = <<>>
  /\ cells = <<>>
  /\ report = "none"
  /\ prev = "none"
  /\ passes = 0
  /\ run = NoRun

SpecProcess == InitProcess /\ [][ProcessPass]_vars

\* the source lines of the code cells of the notebook a file holds
CodeSources(bytes) ==
  [i \in 1..Len(SelectSeq(FileCells(bytes), IsCodeCell))
     |-> Get(SelectSeq(FileCells(bytes), IsCodeCell)[i], "source")]

\* C13: a run of process_notebook that follows a run which returned reports
\* no change and leaves the source lines of every code cell as they were.
C13_ProcessFixedPoint ==
  (passes >= 2 /\ prev \in {"MODIFIED", "No changes needed"}
     /\ report # "raised") =>
    /\ report = "No changes needed"
    /\ CodeSources(nbfile) = CodeSources(before)

=============================================================================
